---- MODULE Spec2Model ----
(***************************************************************************)
(* Authentication and user-management backend                              *)
(* (medalichakhari/fastapi-project).                                       *)
(*                                                                         *)
(* State: the user table, the server clock (whole seconds, as python-jose  *)
(* reads it), the log of tokens the server has signed, and the last        *)
(* request with its response.  One action per HTTP handler; where requests *)
(* interleave, a handler is two steps and pending holds the requests that  *)
(* are between them.                                                       *)
(***************************************************************************)
EXTENDS Integers, Sequences, FiniteSets, TLC

VARIABLES users, nextId, now, issued, last, pending

vars == <<users, nextId, now, issued, last, pending>>

(***************************************************************************)
(* Bounds of the model.  Time is counted in ticks; the two lifetimes are   *)
(* the configured ACCESS_TOKEN_EXPIRE_MINUTES / REFRESH_TOKEN_EXPIRE_DAYS  *)
(* scaled down to ticks, keeping access < refresh.                         *)
(***************************************************************************)
MaxTime == 3

MaxId == 2

MaxIssued == 1

MaxUpdateFields == 2

ACCESS_TTL == 1

REFRESH_TTL == 2

Emails == {"a@x.com", "b@x.com"}

Usernames == {"alice", "bob"}

Passwords == {"Password123!", "Wrong123!"}

SECRET_KEY == "server-secret"

OTHER_KEY == "other-secret"

\* Optional[...] values are sets: None is the empty set, a value v is {v}.
None == {}

\* .first() of a query result
first(rows) == IF rows = {} THEN None ELSE {CHOOSE u \in rows : \A v \in rows : u.id <= v.id}

\* str(user.id) and int(user_id): an id is rendered as its decimal digits
\* (ids of the model have one digit).
str(n) == <<n>>

int(s) == s[1]

(***************************************************************************)
(* Credential hasher (app/core/security.py, passlib bcrypt).               *)
(***************************************************************************)
\* The schemas admit passwords of 8 to 100 characters; these two have 73 and
\* agree on their first 72.
LongPasswords ==
    {"aaaaaaaaaaaaaaaaaaaaaaaaaaaaaaaaaaaaaaaaaaaaaaaaaaaaaaaaaaaaaaaaaaaaaaaa1",
     "aaaaaaaaaaaaaaaaaaaaaaaaaaaaaaaaaaaaaaaaaaaaaaaaaaaaaaaaaaaaaaaaaaaaaaaa2"}

\* bcrypt hashes the first 72 bytes of the password and ignores the rest
truncate72(password) ==
    IF password \in LongPasswords
    THEN "aaaaaaaaaaaaaaaaaaaaaaaaaaaaaaaaaaaaaaaaaaaaaaaaaaaaaaaaaaaaaaaaaaaaaaaa"
    ELSE password

get_password_hash(password, salt) ==
    [salt |-> salt, digest |-> <<salt, truncate72(password)>>]

\* strings that are no bcrypt digest: empty, arbitrary text, a bcrypt digest
\* cut short, the digest of a scheme the context does not list
MalformedDigests ==
    {[raw |-> ""], [raw |-> "not-a-hash"], [raw |-> "$2b$12$short"],
     [raw |-> "$1$salt$md5crypt"]}

\* CryptContext identifies a string as a digest of one of its schemes
identify(hashed_password) == DOMAIN hashed_password = {"salt", "digest"}

\* pwd_context.verify raises (UnknownHashError, a ValueError) on a string it
\* cannot identify; verify_password catches nothing
verify_password_raises(plain_password, hashed_password) ==
    ~identify(hashed_password)

\* the value verify_password returns when it returns
verify_password(plain_password, hashed_password) ==
    /\ identify(hashed_password)
    /\ get_password_hash(plain_password, hashed_password.salt) = hashed_password

(***************************************************************************)
(* Token service (app/core/security.py, python-jose HS256).                *)
(* A token is its payload and a MAC over the payload under the key; a      *)
(* string that is not a JWT has no payload at all.                         *)
(***************************************************************************)
jwt_encode(claims, key) == [payload |-> claims, sig |-> <<key, claims>>]

create_access_token(subject, t) ==
    jwt_encode([exp |-> t + ACCESS_TTL, sub |-> subject, type |-> "access"], SECRET_KEY)

\* create_refresh_token written as a copy of create_access_token
create_refresh_token_as_access(subject, t) == create_access_token(subject, t)

create_refresh_token(subject, t) ==
    jwt_encode([exp |-> t + REFRESH_TTL, sub |-> subject, type |-> "refresh"], SECRET_KEY)

\* jwt_decode validating exp against a clock that runs ahead of the one the
\* tokens were signed with (local time taken for UTC)
jwt_decode_clock_ahead(token, key, t) ==
    IF "payload" \notin DOMAIN token
    THEN [ok |-> FALSE, error |-> "JWTError"]
    ELSE IF token.sig # <<key, token.payload>>
    THEN [ok |-> FALSE, error |-> "JWTError"]
    ELSE IF "exp" \in DOMAIN token.payload /\ token.payload.exp < t + REFRESH_TTL
    THEN [ok |-> FALSE, error |-> "ExpiredSignatureError"]
    ELSE [ok |-> TRUE, payload |-> token.payload]

\* jose.jwt.decode: parse, verify the signature, then validate exp if present
\* (python-jose raises ExpiredSignatureError when exp < now).
jwt_decode(token, key, t) ==
    IF "payload" \notin DOMAIN token
    THEN [ok |-> FALSE, error |-> "JWTError"]
    ELSE IF token.sig # <<key, token.payload>>
    THEN [ok |-> FALSE, error |-> "JWTError"]
    ELSE IF "exp" \in DOMAIN token.payload /\ token.payload.exp < t
    THEN [ok |-> FALSE, error |-> "ExpiredSignatureError"]
    ELSE [ok |-> TRUE, payload |-> token.payload]

\* payload.get(k)
payload_get(payload, k) == IF k \in DOMAIN payload THEN {payload[k]} ELSE None

\* verify_token without the comparison of the type claim
verify_token_any_type(token, token_type, t) ==
    LET d == jwt_decode(token, SECRET_KEY, t)
    IN  IF ~d.ok THEN None
        ELSE payload_get(d.payload, "sub")

verify_token(token, token_type, t) ==
    LET d == jwt_decode(token, SECRET_KEY, t)
    IN  IF ~d.ok THEN None
        ELSE LET token_sub == payload_get(d.payload, "sub")
                 token_type_in_token == payload_get(d.payload, "type")
             IN  IF token_sub = None \/ token_type_in_token # {token_type}
                 THEN None
                 ELSE token_sub

(***************************************************************************)
(* User store (app/services/user.py).                                      *)
(***************************************************************************)
\* get_by_id without its filter on the id
get_by_id_unfiltered(db, user_id) == first(db)

get_by_id(db, user_id) == first({u \in db : u.id = user_id})

get_by_email(db, email) == first({u \in db : u.email = email})

get_by_username(db, username) == first({u \in db : u.username = username})

the(opt) == CHOOSE x \in opt : TRUE

\* The primary key the users table gives a new row (app/models/user.py):
\* ids are handed out in increasing order and an id is never given twice.
new_id(seq) == seq

\* UserService.create; the row id comes from the table's sequence.
create(db, user_in, salt, id) ==
    LET db_user == [id |-> id,
                    email |-> user_in.email,
                    username |-> user_in.username,
                    hashed_password |-> get_password_hash(user_in.password, salt),
                    is_active |-> user_in.is_active,
                    is_superuser |-> user_in.is_superuser]
    IN  [db |-> db \cup {db_user}, user |-> db_user]

\* the update written from a dump that includes the unset fields: a flag the
\* request leaves out is set to its schema default
apply_updates_unset_as_default(db_user, update_data, salt) ==
    [id |-> db_user.id,
     email |-> IF "email" \in DOMAIN update_data THEN update_data.email ELSE db_user.email,
     username |-> IF "username" \in DOMAIN update_data THEN update_data.username
                  ELSE db_user.username,
     hashed_password |-> IF "password" \in DOMAIN update_data
                         THEN get_password_hash(update_data.password, salt)
                         ELSE db_user.hashed_password,
     is_active |-> IF "is_active" \in DOMAIN update_data THEN update_data.is_active
                   ELSE TRUE,
     is_superuser |-> IF "is_superuser" \in DOMAIN update_data THEN update_data.is_superuser
                      ELSE FALSE]

\* setattr(db_user, field, value) for every field of update_data
apply_updates(db_user, update_data, salt) ==
    [id |-> db_user.id,
     email |-> IF "email" \in DOMAIN update_data THEN update_data.email ELSE db_user.email,
     username |-> IF "username" \in DOMAIN update_data THEN update_data.username
                  ELSE db_user.username,
     hashed_password |-> IF "password" \in DOMAIN update_data
                         THEN get_password_hash(update_data.password, salt)
                         ELSE db_user.hashed_password,
     is_active |-> IF "is_active" \in DOMAIN update_data THEN update_data.is_active
                   ELSE db_user.is_active,
     is_superuser |-> IF "is_superuser" \in DOMAIN update_data THEN update_data.is_superuser
                      ELSE db_user.is_superuser]

\* UserService.update without the lookup of the new email
update_no_email_check(db, user_id, user_in, salt) ==
    LET found == get_by_id(db, user_id)
    IN  IF found = None
        THEN [raised |-> None, user |-> None, db |-> db]
        ELSE LET db_user == the(found)
                 update_data == user_in
             IN  IF /\ "username" \in DOMAIN update_data
                    /\ update_data.username # db_user.username
                    /\ get_by_username(db, update_data.username) # None
                 THEN [raised |-> {"Username already taken"}, user |-> None, db |-> db]
                 ELSE LET new_user == apply_updates(db_user, update_data, salt)
                      IN  [raised |-> None, user |-> {new_user},
                           db |-> (db \ {db_user}) \cup {new_user}]

\* UserService.update: None when the row is missing, HTTPException 400 on a
\* duplicate, else the row with the provided fields set.
update(db, user_id, user_in, salt) ==
    LET found == get_by_id(db, user_id)
    IN  IF found = None
        THEN [raised |-> None, user |-> None, db |-> db]
        ELSE LET db_user == the(found)
                 update_data == user_in
             IN  IF /\ "email" \in DOMAIN update_data
                    /\ update_data.email # db_user.email
                    /\ get_by_email(db, update_data.email) # None
                 THEN [raised |-> {"Email already registered"}, user |-> None, db |-> db]
                 ELSE IF /\ "username" \in DOMAIN update_data
                         /\ update_data.username # db_user.username
                         /\ get_by_username(db, update_data.username) # None
                 THEN [raised |-> {"Username already taken"}, user |-> None, db |-> db]
                 ELSE LET new_user == apply_updates(db_user, update_data, salt)
                      IN  [raised |-> None, user |-> {new_user},
                           db |-> (db \ {db_user}) \cup {new_user}]

\* UserService.delete whose DELETE lost its filter on the id
delete_unfiltered(db, user_id) ==
    LET found == get_by_id(db, user_id)
    IN  IF found = None
        THEN [deleted |-> FALSE, db |-> db]
        ELSE [deleted |-> TRUE, db |-> {}]

\* UserService.delete that reports the deletion and leaves the row in place
delete_keeps_row(db, user_id) ==
    LET found == get_by_id(db, user_id)
    IN  IF found = None
        THEN [deleted |-> FALSE, db |-> db]
        ELSE [deleted |-> TRUE, db |-> db]

\* UserService.delete
delete(db, user_id) ==
    LET found == get_by_id(db, user_id)
    IN  IF found = None
        THEN [deleted |-> FALSE, db |-> db]
        ELSE [deleted |-> TRUE, db |-> db \ found]

\* UserService.authenticate is left by the exception of verify_password
authenticate_raises(db, email, password) ==
    LET user == get_by_email(db, email)
    IN  /\ user # None
        /\ verify_password_raises(password, the(user).hashed_password)

\* UserService.authenticate
authenticate(db, email, password) ==
    LET user == get_by_email(db, email)
    IN  IF user = None THEN None
        ELSE IF ~verify_password(password, the(user).hashed_password) THEN None
        ELSE user

(***************************************************************************)
(* Responses.                                                              *)
(***************************************************************************)
HTTPException(status_code, detail) ==
    [status |-> status_code, detail |-> detail, body |-> None]

\* an exception no handler catches: the server answers 500
InternalServerError == HTTPException(500, "Internal Server Error")

Response(status_code, body) ==
    [status |-> status_code, detail |-> "", body |-> {body}]

\* the projection of schemas/user.py UserInDB, which carries the digest
UserInDB(u) ==
    [id |-> u.id, email |-> u.email, username |-> u.username,
     is_active |-> u.is_active, is_superuser |-> u.is_superuser,
     hashed_password |-> u.hashed_password]

\* response_model=User (schemas/user.py): the fields of UserInDBBase
UserSchema(u) ==
    [id |-> u.id, email |-> u.email, username |-> u.username,
     is_active |-> u.is_active, is_superuser |-> u.is_superuser]

(***************************************************************************)
(* Auth gate (app/core/dependencies.py).  credentials is None when the     *)
(* request carries no bearer credential (HTTPBearer rejects it with 403).  *)
(***************************************************************************)
\* get_current_user without the is_active check
get_current_user_no_active_check(credentials, db, t) ==
    IF credentials = None
    THEN [ok |-> FALSE, exc |-> HTTPException(403, "Not authenticated"), user |-> None]
    ELSE LET user_id == verify_token(the(credentials), "access", t)
         IN  IF user_id = None \/ user_id = {<<>>}
             THEN [ok |-> FALSE, user |-> None,
                   exc |-> HTTPException(401, "Invalid or expired access token")]
             ELSE LET user == get_by_id(db, int(the(user_id)))
                  IN  IF user = None
                      THEN [ok |-> FALSE, user |-> None,
                            exc |-> HTTPException(404, "User not found")]
                      ELSE [ok |-> TRUE, user |-> user, exc |-> Response(200, "")]

get_current_user(credentials, db, t) ==
    IF credentials = None
    THEN [ok |-> FALSE, exc |-> HTTPException(403, "Not authenticated"), user |-> None]
    ELSE LET user_id == verify_token(the(credentials), "access", t)
         IN  IF user_id = None \/ user_id = {<<>>}
             THEN [ok |-> FALSE, user |-> None,
                   exc |-> HTTPException(401, "Invalid or expired access token")]
             ELSE LET user == get_by_id(db, int(the(user_id)))
                  IN  IF user = None
                      THEN [ok |-> FALSE, user |-> None,
                            exc |-> HTTPException(404, "User not found")]
                      ELSE IF ~the(user).is_active
                      THEN [ok |-> FALSE, user |-> None,
                            exc |-> HTTPException(403, "Inactive user")]
                      ELSE [ok |-> TRUE, user |-> user, exc |-> Response(200, "")]

\* get_current_active_superuser without the is_superuser check
get_current_active_superuser_no_check(credentials, db, t) ==
    get_current_user(credentials, db, t)

get_current_active_superuser(credentials, db, t) ==
    LET g == get_current_user(credentials, db, t)
    IN  IF ~g.ok THEN g
        ELSE IF ~the(g.user).is_superuser
        THEN [ok |-> FALSE, user |-> None,
              exc |-> HTTPException(403, "Not enough permissions. Superuser access required.")]
        ELSE g

(***************************************************************************)
(* Request bodies (app/schemas).                                           *)
(***************************************************************************)
\* UserCreate: is_active and is_superuser are fields of UserBase, so a
\* client may send them (defaults True / False).
UserCreate ==
    [email : Emails, username : Usernames, password : Passwords,
     is_active : BOOLEAN, is_superuser : BOOLEAN]

UserUpdateFields == {"email", "username", "password", "is_active", "is_superuser"}

\* UserUpdate after model_dump(exclude_unset=True): only the fields sent.
UserUpdate ==
    {[f \in F |-> r[f]] : r \in UserCreate,
                          F \in {G \in SUBSET UserUpdateFields : Cardinality(G) <= MaxUpdateFields}}

LoginRequest == [email : Emails, password : Passwords]

(***************************************************************************)
(* Handlers (app/api).  Each returns the response, the table after the     *)
(* request and the tokens it signed.                                       *)
(***************************************************************************)
\* a call of create_access_token / create_refresh_token and what it returned
signed_by(fn, subject, token) == [by |-> fn, sub |-> subject, token |-> token]

\* login that looks at is_active before the password
login_inactive_first(login_data, db, t) ==
    LET found == get_by_email(db, login_data.email)
        user == authenticate(db, login_data.email, login_data.password)
    IN  IF found # None /\ ~the(found).is_active
        THEN [resp |-> HTTPException(403, "Inactive user account"), signed |-> {}]
        ELSE IF user = None
        THEN [resp |-> HTTPException(401, "Incorrect email or password"), signed |-> {}]
        ELSE LET access_token == create_access_token(str(the(user).id), t)
                 refresh_token == create_refresh_token(str(the(user).id), t)
             IN  [resp |-> Response(200, [access_token |-> access_token,
                                          refresh_token |-> refresh_token,
                                          token_type |-> "bearer",
                                          user |-> UserSchema(the(user))]),
                  signed |-> {signed_by("create_access_token", str(the(user).id), access_token),
                              signed_by("create_refresh_token", str(the(user).id),
                                        refresh_token)}]

\* login without the is_active check
login_no_active_check(login_data, db, t) ==
    LET user == authenticate(db, login_data.email, login_data.password)
    IN  IF user = None
        THEN [resp |-> HTTPException(401, "Incorrect email or password"), signed |-> {}]
        ELSE LET access_token == create_access_token(str(the(user).id), t)
                 refresh_token == create_refresh_token(str(the(user).id), t)
             IN  [resp |-> Response(200, [access_token |-> access_token,
                                          refresh_token |-> refresh_token,
                                          token_type |-> "bearer",
                                          user |-> UserSchema(the(user))]),
                  signed |-> {signed_by("create_access_token", str(the(user).id), access_token),
                              signed_by("create_refresh_token", str(the(user).id),
                                        refresh_token)}]

\* POST /auth/login
login(login_data, db, t) ==
    LET user == authenticate(db, login_data.email, login_data.password)
    IN  IF authenticate_raises(db, login_data.email, login_data.password)
        THEN [resp |-> InternalServerError, signed |-> {}]
        ELSE IF user = None
        THEN [resp |-> HTTPException(401, "Incorrect email or password"), signed |-> {}]
        ELSE IF ~the(user).is_active
        THEN [resp |-> HTTPException(403, "Inactive user account"), signed |-> {}]
        ELSE LET access_token == create_access_token(str(the(user).id), t)
                 refresh_token == create_refresh_token(str(the(user).id), t)
             IN  [resp |-> Response(200, [access_token |-> access_token,
                                          refresh_token |-> refresh_token,
                                          token_type |-> "bearer",
                                          user |-> UserSchema(the(user))]),
                  signed |-> {signed_by("create_access_token", str(the(user).id), access_token),
                              signed_by("create_refresh_token", str(the(user).id),
                                        refresh_token)}]

\* refresh that trusts the verified subject without loading the user
refresh_token_no_lookup(refresh_data, db, t) ==
    LET user_id == verify_token(refresh_data, "refresh", t)
    IN  IF user_id = None \/ user_id = {<<>>}
        THEN [resp |-> HTTPException(401, "Invalid or expired refresh token"), signed |-> {}]
        ELSE LET new_access_token == create_access_token(the(user_id), t)
                 new_refresh_token == create_refresh_token(the(user_id), t)
             IN  [resp |-> Response(200, [access_token |-> new_access_token,
                                          refresh_token |-> new_refresh_token,
                                          token_type |-> "bearer"]),
                  signed |-> {signed_by("create_access_token", the(user_id),
                                        new_access_token),
                              signed_by("create_refresh_token", the(user_id),
                                        new_refresh_token)}]

\* refresh that hands the submitted refresh token back instead of signing a
\* new one
refresh_token_reuse(refresh_data, db, t) ==
    LET user_id == verify_token(refresh_data, "refresh", t)
    IN  IF user_id = None \/ user_id = {<<>>}
        THEN [resp |-> HTTPException(401, "Invalid or expired refresh token"), signed |-> {}]
        ELSE LET user == get_by_id(db, int(the(user_id)))
             IN  IF user = None
                 THEN [resp |-> HTTPException(404, "User not found"), signed |-> {}]
                 ELSE IF ~the(user).is_active
                 THEN [resp |-> HTTPException(403, "Inactive user account"), signed |-> {}]
                 ELSE LET new_access_token == create_access_token(str(the(user).id), t)
                      IN  [resp |-> Response(200, [access_token |-> new_access_token,
                                                   refresh_token |-> refresh_data,
                                                   token_type |-> "bearer"]),
                           signed |-> {signed_by("create_access_token", str(the(user).id),
                                                 new_access_token)}]

\* refresh that does not look at is_active
refresh_token_no_active_check(refresh_data, db, t) ==
    LET user_id == verify_token(refresh_data, "refresh", t)
    IN  IF user_id = None \/ user_id = {<<>>}
        THEN [resp |-> HTTPException(401, "Invalid or expired refresh token"), signed |-> {}]
        ELSE LET user == get_by_id(db, int(the(user_id)))
             IN  IF user = None
                 THEN [resp |-> HTTPException(404, "User not found"), signed |-> {}]
                 ELSE LET new_access_token == create_access_token(str(the(user).id), t)
                          new_refresh_token == create_refresh_token(str(the(user).id), t)
                      IN  [resp |-> Response(200, [access_token |-> new_access_token,
                                                   refresh_token |-> new_refresh_token,
                                                   token_type |-> "bearer"]),
                           signed |-> {signed_by("create_access_token", str(the(user).id),
                                                 new_access_token),
                                       signed_by("create_refresh_token", str(the(user).id),
                                                 new_refresh_token)}]

\* POST /auth/refresh
refresh_token(refresh_data, db, t) ==
    LET user_id == verify_token(refresh_data, "refresh", t)
    IN  IF user_id = None \/ user_id = {<<>>}
        THEN [resp |-> HTTPException(401, "Invalid or expired refresh token"), signed |-> {}]
        ELSE LET user == get_by_id(db, int(the(user_id)))
             IN  IF user = None
                 THEN [resp |-> HTTPException(404, "User not found"), signed |-> {}]
                 ELSE IF ~the(user).is_active
                 THEN [resp |-> HTTPException(403, "Inactive user account"), signed |-> {}]
                 ELSE LET new_access_token == create_access_token(str(the(user).id), t)
                          new_refresh_token == create_refresh_token(str(the(user).id), t)
                      IN  [resp |-> Response(200, [access_token |-> new_access_token,
                                                   refresh_token |-> new_refresh_token,
                                                   token_type |-> "bearer"]),
                           signed |-> {signed_by("create_access_token", str(the(user).id),
                                                 new_access_token),
                                       signed_by("create_refresh_token", str(the(user).id),
                                                 new_refresh_token)}]

\* GET /me
get_current_user_info(credentials, db, t) ==
    LET g == get_current_user(credentials, db, t)
    IN  IF ~g.ok THEN [resp |-> g.exc, db |-> db]
        ELSE [resp |-> Response(200, UserSchema(the(g.user))), db |-> db]

\* the body of PUT /me, run with the user the gate returned: it returns what
\* UserService.update returns, and response_model=UserSchema cannot
\* serialise None (ResponseValidationError, answered 500)
update_current_user_body(user_update, current_user, db, salt) ==
    LET r == update(db, current_user.id, user_update, salt)
    IN  IF r.raised # None
        THEN [resp |-> HTTPException(400, the(r.raised)), db |-> db]
        ELSE IF r.user = None
        THEN [resp |-> InternalServerError, db |-> db]
        ELSE [resp |-> Response(200, UserSchema(the(r.user))), db |-> r.db]

\* PUT /me
update_current_user(user_update, credentials, db, t, salt) ==
    LET g == get_current_user(credentials, db, t)
    IN  IF ~g.ok THEN [resp |-> g.exc, db |-> db]
        ELSE update_current_user_body(user_update, the(g.user), db, salt)

\* the body of DELETE /me: the result of UserService.delete is dropped
delete_current_user_body(current_user, db) ==
    [resp |-> [status |-> 204, detail |-> "", body |-> None],
     db |-> delete(db, current_user.id).db]

\* DELETE /me
delete_current_user(credentials, db, t) ==
    LET g == get_current_user(credentials, db, t)
    IN  IF ~g.ok THEN [resp |-> g.exc, db |-> db]
        ELSE delete_current_user_body(the(g.user), db)

\* create_user without the lookup of the username
create_user_no_username_check(user_in, db, salt, id) ==
    IF get_by_email(db, user_in.email) # None
    THEN [resp |-> HTTPException(400, "Email already registered"), db |-> db]
    ELSE LET c == create(db, user_in, salt, id)
         IN  [resp |-> Response(201, UserSchema(c.user)), db |-> c.db]

\* POST /users/
create_user(user_in, db, salt, id) ==
    IF get_by_email(db, user_in.email) # None
    THEN [resp |-> HTTPException(400, "Email already registered"), db |-> db]
    ELSE IF get_by_username(db, user_in.username) # None
    THEN [resp |-> HTTPException(400, "Username already taken"), db |-> db]
    ELSE LET c == create(db, user_in, salt, id)
         IN  [resp |-> Response(201, UserSchema(c.user)), db |-> c.db]

\* the two lookups of create_user: the detail of the 400 raised, None when
\* both pass
create_user_checks(user_in, db) ==
    IF get_by_email(db, user_in.email) # None THEN {"Email already registered"}
    ELSE IF get_by_username(db, user_in.username) # None THEN {"Username already taken"}
    ELSE None

\* the unique indexes of the users table on email and on username refuse
\* the row
unique_violation(db, row) ==
    \E u \in db : u.id # row.id /\ (u.email = row.email \/ u.username = row.username)

\* create_user after its lookups passed: UserService.create, whose commit
\* raises IntegrityError when an index refuses the row; nothing catches it
create_user_commit(user_in, db, salt, id) ==
    LET c == create(db, user_in, salt, id)
    IN  IF unique_violation(db, c.user)
        THEN [resp |-> InternalServerError, db |-> db]
        ELSE [resp |-> Response(201, UserSchema(c.user)), db |-> c.db]

\* update_user up to the lookups of UserService.update: the response when
\* it ends there (404, 400), None when the handler goes on to write
update_user_checks(user_id, user_in, db, salt) ==
    LET r == update(db, user_id, user_in, salt)
    IN  IF r.raised # None THEN {HTTPException(400, the(r.raised))}
        ELSE IF r.user = None THEN {HTTPException(404, "User not found")}
        ELSE None

\* update_user after the lookups passed: setattr, commit, refresh.  The
\* UPDATE names the row by id; a row deleted meanwhile (StaleDataError) and
\* a row an index refuses (IntegrityError) leave the handler by an
\* exception nothing catches
update_user_commit(user_id, user_in, db, salt) ==
    LET found == get_by_id(db, user_id)
    IN  IF found = None THEN [resp |-> InternalServerError, db |-> db]
        ELSE LET new_user == apply_updates(the(found), user_in, salt)
             IN  IF unique_violation(db, new_user)
                 THEN [resp |-> InternalServerError, db |-> db]
                 ELSE [resp |-> Response(200, UserSchema(new_user)),
                       db |-> (db \ found) \cup {new_user}]

\* db.query(User) without ORDER BY: the rows of the table, each once, in an
\* order the database chooses
query_all(db) ==
    {rows \in [1..Cardinality(db) -> db] :
        \A i, j \in 1..Cardinality(db) : rows[i] = rows[j] => i = j}

\* .offset(skip) reads no row
get_all_no_offset(rows, skip, limit) ==
    {rows[i] : i \in {k \in 1..Len(rows) : k - 1 < limit}}

\* UserService.get_all: .offset(skip).limit(limit).all() of the rows queried
get_all(rows, skip, limit) ==
    {rows[i] : i \in {k \in 1..Len(rows) : k - 1 >= skip /\ k - 1 < skip + limit}}

\* GET /users/
list_users(skip, limit, credentials, db, t, rows) ==
    LET g == get_current_active_superuser(credentials, db, t)
    IN  IF ~g.ok THEN [resp |-> g.exc, db |-> db]
        ELSE [resp |-> Response(200, [list |-> {UserSchema(u) : u \in get_all(rows, skip, limit)}]),
              db |-> db]

\* GET /users/{user_id}
get_user(user_id, db) ==
    LET user == get_by_id(db, user_id)
    IN  IF user = None
        THEN [resp |-> HTTPException(404, "User not found"), db |-> db]
        ELSE [resp |-> Response(200, UserSchema(the(user))), db |-> db]

\* PUT /users/{user_id}
update_user(user_id, user_in, db, salt) ==
    LET r == update(db, user_id, user_in, salt)
    IN  IF r.raised # None
        THEN [resp |-> HTTPException(400, the(r.raised)), db |-> db]
        ELSE IF r.user = None
        THEN [resp |-> HTTPException(404, "User not found"), db |-> db]
        ELSE [resp |-> Response(200, UserSchema(the(r.user))), db |-> r.db]

\* delete_user that deletes the row before it looks at the gate's answer
delete_user_deletes_first(user_id, credentials, db, t) ==
    LET g == get_current_active_superuser(credentials, db, t)
        d == delete(db, user_id)
    IN  IF ~g.ok THEN [resp |-> g.exc, db |-> d.db]
        ELSE IF ~d.deleted
        THEN [resp |-> HTTPException(404, "User not found"), db |-> db]
        ELSE [resp |-> [status |-> 204, detail |-> "", body |-> None], db |-> d.db]

\* DELETE /users/{user_id}
delete_user(user_id, credentials, db, t) ==
    LET g == get_current_active_superuser(credentials, db, t)
    IN  IF ~g.ok THEN [resp |-> g.exc, db |-> db]
        ELSE LET d == delete(db, user_id)
             IN  IF ~d.deleted
                 THEN [resp |-> HTTPException(404, "User not found"), db |-> db]
                 ELSE [resp |-> [status |-> 204, detail |-> "", body |-> None], db |-> d.db]

(***************************************************************************)
(* What a client can put in a request.                                     *)
(***************************************************************************)
\* a string that is not a JWT (tests/test_auth.py sends "invalid_token_12345")
InvalidToken == [raw |-> "invalid_token_12345"]

\* the tokens signed so far, each logged with the time it was signed at
Signed == {i.token : i \in issued}

log(signed, t) == {[token |-> c.token, by |-> c.by, sub |-> c.sub, iat |-> t] : c \in signed}

Presentable == Signed \cup {InvalidToken}

\* the Authorization header: absent, or Bearer <token>
Credentials == {None} \cup {{tk} : tk \in Presentable}

UserIds == 1..MaxId

\* username registered with an email by the clients of Spec
UsernameOf(email) == IF email = "a@x.com" THEN "alice" ELSE "bob"

\* registration requests of Spec
Registrations ==
    {r \in UserCreate : r.username = UsernameOf(r.email) /\ r.password = "Password123!"}

\* the salt bcrypt draws in Spec (the salt decides no response)
SpecSalts == {"salt1"}

\* update requests of Spec: one of the two flags
FlagUpdates == {u \in UserUpdate : DOMAIN u \in {{"is_active"}, {"is_superuser"}}}

Request(op, credentials, arg, resp) ==
    [op |-> op, cred |-> credentials, arg |-> arg, resp |-> resp]

(***************************************************************************)
(* Initial state: empty table, no token signed.                            *)
(***************************************************************************)
Init ==
    /\ users = {}
    /\ nextId = 1
    /\ now = 0
    /\ issued = {}
    /\ pending = {}
    /\ last = Request("start", None, None, HTTPException(0, ""))

(***************************************************************************)
(* Actions: one per handler, over the request inputs given.                *)
(***************************************************************************)
\* the clock advances by one second
Tick ==
    /\ now < MaxTime
    /\ now' = now + 1
    /\ last' = Request("tick", None, None, HTTPException(0, ""))
    /\ UNCHANGED <<users, nextId, issued, pending>>

\* budget: how many signed tokens the log keeps track of
Login(requests, budget) ==
    \E login_data \in requests :
        LET r == login(login_data, users, now)
        IN  /\ Cardinality(issued \cup log(r.signed, now)) <= budget
            /\ issued' = issued \cup log(r.signed, now)
            /\ last' = Request("login", None, {login_data}, r.resp)
            /\ UNCHANGED <<users, nextId, now, pending>>

Refresh(tokens, budget) ==
    \E tk \in tokens :
        LET r == refresh_token(tk, users, now)
        IN  /\ Cardinality(issued \cup log(r.signed, now)) <= budget
            /\ issued' = issued \cup log(r.signed, now)
            /\ last' = Request("refresh", {tk}, None, r.resp)
            /\ UNCHANGED <<users, nextId, now, pending>>

GetMe(creds) ==
    \E c \in creds :
        LET r == get_current_user_info(c, users, now)
        IN  /\ users' = r.db
            /\ last' = Request("get_me", c, None, r.resp)
            /\ UNCHANGED <<nextId, now, issued, pending>>

PutMe(creds, updates, salts) ==
    \E c \in creds, user_update \in updates, salt \in salts :
        LET r == update_current_user(user_update, c, users, now, salt)
        IN  /\ users' = r.db
            /\ last' = Request("put_me", c, None, r.resp)
            /\ UNCHANGED <<nextId, now, issued, pending>>

DeleteMe(creds) ==
    \E c \in creds :
        LET r == delete_current_user(c, users, now)
        IN  /\ users' = r.db
            /\ last' = Request("delete_me", c, None, r.resp)
            /\ UNCHANGED <<nextId, now, issued, pending>>

CreateUser(requests, salts) ==
    \E user_in \in requests, salt \in salts :
        LET r == create_user(user_in, users, salt, new_id(nextId))
        IN  /\ nextId <= MaxId
            /\ users' = r.db
            /\ nextId' = IF r.resp.status = 201 THEN nextId + 1 ELSE nextId
            /\ last' = Request("create_user", None, None, r.resp)
            /\ UNCHANGED <<now, issued, pending>>

ListUsers(creds, skips, limits) ==
    \E c \in creds, skip \in skips, limit \in limits, rows \in query_all(users) :
        LET r == list_users(skip, limit, c, users, now, rows)
        IN  /\ users' = r.db
            /\ last' = Request("list_users", c, {[skip |-> skip, limit |-> limit]}, r.resp)
            /\ UNCHANGED <<nextId, now, issued, pending>>

GetUser(ids) ==
    \E user_id \in ids :
        LET r == get_user(user_id, users)
        IN  /\ users' = r.db
            /\ last' = Request("get_user", None, {user_id}, r.resp)
            /\ UNCHANGED <<nextId, now, issued, pending>>

UpdateUser(ids, updates, salts) ==
    \E user_id \in ids, user_in \in updates, salt \in salts :
        LET r == update_user(user_id, user_in, users, salt)
        IN  /\ users' = r.db
            /\ last' = Request("update_user", None, {user_id}, r.resp)
            /\ UNCHANGED <<nextId, now, issued, pending>>

DeleteUser(creds, ids) ==
    \E c \in creds, user_id \in ids :
        LET r == delete_user(user_id, c, users, now)
        IN  /\ users' = r.db
            /\ last' = Request("delete_user", c, {user_id}, r.resp)
            /\ UNCHANGED <<nextId, now, issued, pending>>

Next ==
    \/ Tick
    \/ Login(LoginRequest, 2 * MaxIssued)
    \/ Refresh(Presentable, 2 * MaxIssued)
    \/ GetMe(Credentials)
    \/ PutMe(Credentials, FlagUpdates, SpecSalts)
    \/ DeleteMe(Credentials)
    \/ CreateUser(Registrations, SpecSalts)
    \/ ListUsers(Credentials, {0}, {100})
    \/ GetUser(UserIds)
    \/ UpdateUser(UserIds, FlagUpdates, SpecSalts)
    \/ DeleteUser(Credentials, UserIds)

Spec == Init /\ [][Next]_vars

(***************************************************************************)
(* One account over time: a single identity registers, logs in, refreshes, *)
(* changes its password, is deactivated, deleted and registered again,     *)
(* while the clock runs past the expiry of its tokens.                     *)
(***************************************************************************)
TokenRegistrations == {r \in Registrations : r.email = "a@x.com"}

TokenLogins == {d \in LoginRequest : d.email = "a@x.com"}

\* update requests of SpecTokens: a new password, or the is_active flag
TokenUpdates == {u \in UserUpdate : DOMAIN u \in {{"password"}, {"is_active"}}}

NextTokens ==
    \/ Tick
    \/ Login(TokenLogins, 2 * (MaxIssued + 1))
    \/ Refresh(Presentable, 2 * (MaxIssued + 1))
    \/ GetMe(Credentials)
    \/ PutMe(Credentials, TokenUpdates, SpecSalts)
    \/ DeleteMe(Credentials)
    \/ CreateUser(TokenRegistrations, SpecSalts)
    \/ UpdateUser(UserIds, TokenUpdates, SpecSalts)
    \/ DeleteUser(Credentials, UserIds)

SpecTokens == Init /\ [][NextTokens]_vars

(***************************************************************************)
(* One identity that registers with one password, logs in, is deleted (by  *)
(* itself or as a superuser) and registers again.  Every account there     *)
(* ever was has the email "a@x.com" and the password "Password123!".       *)
(***************************************************************************)
ReloginRegistrations == {r \in TokenRegistrations : r.is_active}

NextRelogin ==
    \/ Login(TokenLogins, 2 * (MaxIssued + 1))
    \/ GetMe(Credentials)
    \/ DeleteMe(Credentials)
    \/ CreateUser(ReloginRegistrations, SpecSalts)
    \/ DeleteUser(Credentials, UserIds)

SpecRelogin == Init /\ [][NextRelogin]_vars

(***************************************************************************)
(* One account whose password is set at registration and changed by PUT    *)
(* /me and PUT /users/{id}, over short and long passwords and the salts    *)
(* bcrypt may draw.                                                        *)
(***************************************************************************)
AllPasswords == Passwords \cup LongPasswords

HashSalts == {"salt1", "salt2"}

PasswordRegistrations ==
    {[r EXCEPT !.password = p] : r \in ReloginRegistrations, p \in AllPasswords}

PasswordLogins == {[email |-> "a@x.com", password |-> p] : p \in AllPasswords}

PasswordUpdates == {[password |-> p] : p \in AllPasswords}

NextPasswords ==
    \/ Login(PasswordLogins, 2 * MaxIssued)
    \/ PutMe(Credentials, PasswordUpdates, HashSalts)
    \/ DeleteMe(Credentials)
    \/ CreateUser(PasswordRegistrations, HashSalts)
    \/ UpdateUser(UserIds, PasswordUpdates, HashSalts)

SpecPasswords == Init /\ [][NextPasswords]_vars

(***************************************************************************)
(* The user table under registrations, updates of email, username and      *)
(* password, and deletions, by two identities that may ask for each        *)
(* other's email and username.  The clock stands still.                    *)
(***************************************************************************)
StoreRegistrations ==
    {r \in UserCreate : r.password = "Password123!" /\ r.is_active}

\* update requests of SpecStore: any of email, username and password
StoreUpdates == {u \in UserUpdate : DOMAIN u \subseteq {"email", "username", "password"}}

NextStore ==
    \/ Login(LoginRequest, 2 * MaxIssued)
    \/ GetMe(Credentials)
    \/ PutMe(Credentials, StoreUpdates, SpecSalts)
    \/ DeleteMe(Credentials)
    \/ CreateUser(StoreRegistrations, SpecSalts)
    \/ GetUser(UserIds)
    \/ UpdateUser(UserIds, StoreUpdates, SpecSalts)
    \/ DeleteUser(Credentials, UserIds)

SpecStore == Init /\ [][NextStore]_vars

(***************************************************************************)
(* GET /users/ with pagination: registrations, deletions and listings      *)
(* with every skip and limit of a small range.  The clock stands still.    *)
(***************************************************************************)
MaxSkip == 3

MaxLimit == 3

\* the default of limit (users.py:44)
DefaultLimit == 100

Skips == 0..MaxSkip

Limits == (0..MaxLimit) \cup {DefaultLimit}

PageRegistrations == {r \in Registrations : r.is_active}

NextPages ==
    \/ Login(LoginRequest, 2 * MaxIssued)
    \/ CreateUser(PageRegistrations, SpecSalts)
    \/ ListUsers(Credentials, Skips, Limits)
    \/ DeleteUser(Credentials, UserIds)

SpecPages == Init /\ [][NextPages]_vars

(***************************************************************************)
(* The hasher as a function of its input: one account whose stored digest  *)
(* is any digest the hasher produces or a string that is none; passwords   *)
(* are verified against it, logins name the account, and PUT /users/{id}   *)
(* stores the hash of a new password.                                      *)
(***************************************************************************)
StoredDigests ==
    {get_password_hash(p, salt) : p \in AllPasswords, salt \in HashSalts}
    \cup MalformedDigests

InitHasher ==
    /\ \E h \in StoredDigests :
          users = {[id |-> 1, email |-> "a@x.com", username |-> "alice",
                    hashed_password |-> h, is_active |-> TRUE,
                    is_superuser |-> FALSE]}
    /\ nextId = 2
    /\ now = 0
    /\ issued = {}
    /\ pending = {}
    /\ last = Request("start", None, None, HTTPException(0, ""))

\* a call of verify_password on a stored digest: what it returns, or that
\* it raised
VerifyPassword(passwords) ==
    \E plain_password \in passwords, u \in users :
        /\ last' = Request("verify_password", None,
                           {[plain_password |-> plain_password,
                             hashed_password |-> u.hashed_password]},
                           IF verify_password_raises(plain_password, u.hashed_password)
                           THEN [status |-> 0, detail |-> "UnknownHashError",
                                 body |-> None]
                           ELSE [status |-> 0, detail |-> "",
                                 body |-> {verify_password(plain_password,
                                                           u.hashed_password)}])
        /\ UNCHANGED <<users, nextId, now, issued, pending>>

NextHasher ==
    \/ VerifyPassword(AllPasswords)
    \/ Login(PasswordLogins, 2 * MaxIssued)
    \/ UpdateUser(UserIds, PasswordUpdates, HashSalts)

SpecHasher == InitHasher /\ [][NextHasher]_vars

(***************************************************************************)
(* Interleaved requests.  Each request runs in its own session with no     *)
(* lock held across requests (database.py get_db), so another request's    *)
(* commit can fall between a handler's lookups and its write, and between  *)
(* the gate's lookup and the handler's store call.  pending holds the      *)
(* requests that are between their two steps.                              *)
(***************************************************************************)
MaxPending == 2

\* a number for a request in flight
free_slot == CHOOSE k \in 1..MaxPending : \A p \in pending : p.n # k

InFlight(op, credentials, user, arg, salt) ==
    [n |-> free_slot, op |-> op, cred |-> credentials, user |-> user,
     arg |-> arg, salt |-> salt]

NoResponse == HTTPException(0, "")

\* POST /users/ up to the end of its lookups
CreateUserCheck(requests, salts) ==
    \E user_in \in requests, salt \in salts :
        LET raised == create_user_checks(user_in, users)
        IN  /\ IF raised # None
               THEN /\ last' = Request("create_user", None, None,
                                       HTTPException(400, the(raised)))
                    /\ pending' = pending
               ELSE /\ Cardinality(pending) < MaxPending
                    /\ pending' = pending \cup
                          {InFlight("create_user", None, None, {user_in}, {salt})}
                    /\ last' = Request("checked", None, None, NoResponse)
            /\ UNCHANGED <<users, nextId, now, issued>>

\* POST /users/ from UserService.create on
CreateUserCommit ==
    \E p \in pending :
        LET r == create_user_commit(the(p.arg), users, the(p.salt), new_id(nextId))
        IN  /\ p.op = "create_user"
            /\ nextId <= MaxId
            /\ users' = r.db
            /\ nextId' = IF r.resp.status = 201 THEN nextId + 1 ELSE nextId
            /\ last' = Request("create_user", None, {p.n}, r.resp)
            /\ pending' = pending \ {p}
            /\ UNCHANGED <<now, issued>>

\* PUT /users/{user_id} up to the end of the lookups of UserService.update
UpdateUserCheck(ids, updates, salts) ==
    \E user_id \in ids, user_in \in updates, salt \in salts :
        LET ended == update_user_checks(user_id, user_in, users, salt)
        IN  /\ IF ended # None
               THEN /\ last' = Request("update_user", None, {user_id}, the(ended))
                    /\ pending' = pending
               ELSE /\ Cardinality(pending) < MaxPending
                    /\ pending' = pending \cup
                          {InFlight("update_user", None, {user_id}, {user_in}, {salt})}
                    /\ last' = Request("checked", None, None, NoResponse)
            /\ UNCHANGED <<users, nextId, now, issued>>

\* PUT /users/{user_id} from the write of UserService.update on
UpdateUserCommit ==
    \E p \in pending :
        LET r == update_user_commit(the(p.user), the(p.arg), users, the(p.salt))
        IN  /\ p.op = "update_user"
            /\ users' = r.db
            /\ last' = Request("update_user", None, p.user, r.resp)
            /\ pending' = pending \ {p}
            /\ UNCHANGED <<nextId, now, issued>>

\* PUT /me: the dependency get_current_user
PutMeGate(creds, updates, salts) ==
    \E c \in creds, user_update \in updates, salt \in salts :
        LET g == get_current_user(c, users, now)
        IN  /\ IF ~g.ok
               THEN /\ last' = Request("put_me", c, None, g.exc)
                    /\ pending' = pending
               ELSE /\ Cardinality(pending) < MaxPending
                    /\ pending' = pending \cup
                          {InFlight("put_me", c, g.user, {user_update}, {salt})}
                    /\ last' = Request("gate", c, None, NoResponse)
            /\ UNCHANGED <<users, nextId, now, issued>>

\* PUT /me: the handler body, with the user the gate returned
PutMeBody ==
    \E p \in pending :
        LET r == update_current_user_body(the(p.arg), the(p.user), users, the(p.salt))
        IN  /\ p.op = "put_me"
            /\ users' = r.db
            /\ last' = Request("put_me", p.cred, {the(p.user).id}, r.resp)
            /\ pending' = pending \ {p}
            /\ UNCHANGED <<nextId, now, issued>>

\* DELETE /me: the dependency get_current_user
DeleteMeGate(creds) ==
    \E c \in creds :
        LET g == get_current_user(c, users, now)
        IN  /\ IF ~g.ok
               THEN /\ last' = Request("delete_me", c, None, g.exc)
                    /\ pending' = pending
               ELSE /\ Cardinality(pending) < MaxPending
                    /\ pending' = pending \cup
                          {InFlight("delete_me", c, g.user, None, None)}
                    /\ last' = Request("gate", c, None, NoResponse)
            /\ UNCHANGED <<users, nextId, now, issued>>

\* DELETE /me: the handler body, with the user the gate returned
DeleteMeBody ==
    \E p \in pending :
        LET r == delete_current_user_body(the(p.user), users)
        IN  /\ p.op = "delete_me"
            /\ users' = r.db
            /\ last' = Request("delete_me", p.cred, {the(p.user).id}, r.resp)
            /\ pending' = pending \ {p}
            /\ UNCHANGED <<nextId, now, issued>>

\* registrations and updates that ask for the same emails and usernames
RaceRegistrations == {r \in StoreRegistrations : ~r.is_superuser}

RaceUpdates == {u \in UserUpdate : DOMAIN u \in {{"email"}, {"username"}}}

NextRaceStore ==
    \/ CreateUserCheck(RaceRegistrations, SpecSalts)
    \/ CreateUserCommit
    \/ UpdateUserCheck(UserIds, RaceUpdates, SpecSalts)
    \/ UpdateUserCommit

SpecRaceStore == Init /\ [][NextRaceStore]_vars

\* /me requests of logged-in users, two at a time
NextRaceMe ==
    \/ CreateUser(PageRegistrations, SpecSalts)
    \/ Login(LoginRequest, 2 * MaxIssued)
    \/ PutMeGate(Credentials, RaceUpdates, SpecSalts)
    \/ PutMeBody
    \/ DeleteMeGate(Credentials)
    \/ DeleteMeBody

SpecRaceMe == Init /\ [][NextRaceMe]_vars

(***************************************************************************)
(* verify_token as a function of its input: any string at any time.        *)
(***************************************************************************)
TokenTypes == {"access", "refresh"}

PayloadFields == {"exp", "sub", "type"}

FullPayloads == [exp : 0..(MaxTime + 1), sub : {str(1)}, type : TokenTypes]

\* payloads with any of the claims left out
Payloads == {[f \in F |-> c[f]] : c \in FullPayloads, F \in SUBSET PayloadFields}

\* not a JWT; any payload signed with the server's secret or with another
\* one; a server-signed token whose payload was changed afterwards
TokenUniverse ==
    {InvalidToken}
    \cup {jwt_encode(c, k) : c \in Payloads, k \in {SECRET_KEY, OTHER_KEY}}
    \cup {[payload |-> cd[1], sig |-> <<SECRET_KEY, cd[2]>>] :
            cd \in {x \in FullPayloads \X FullPayloads : x[1] # x[2]}}

InitVerify ==
    /\ users = {}
    /\ nextId = 1
    /\ issued = {}
    /\ pending = {}
    /\ now \in 0..MaxTime
    /\ \E tk \in TokenUniverse, ty \in TokenTypes :
          last = Request("input", {tk}, {ty}, HTTPException(0, ""))

Verify ==
    /\ last.op = "input"
    /\ last' = Request("verify_token", last.cred, last.arg,
                       [status |-> 0, detail |-> "",
                        body |-> verify_token(the(last.cred), the(last.arg), now)])
    /\ UNCHANGED <<users, nextId, now, issued, pending>>

NextVerify == Verify

SpecVerify == InitVerify /\ [][NextVerify]_vars

(***************************************************************************)
(* Properties.                                                             *)
(***************************************************************************)
ProtectedOps == {"get_me", "put_me", "delete_me", "list_users", "delete_user"}

Times == 0..(MaxTime + REFRESH_TTL)

\* C1: a token signed by create_access_token is rejected by refresh
\* verification at every time, and a token signed by create_refresh_token is
\* rejected by access verification at every time; POST /auth/refresh given
\* an access token answers 401 and a protected endpoint given a refresh
\* token answers 401.
C1_TokensNotInterchangeable ==
    /\ \A i \in issued, t \in Times :
          /\ i.by = "create_access_token" => verify_token(i.token, "refresh", t) = None
          /\ i.by = "create_refresh_token" => verify_token(i.token, "access", t) = None
    /\ \A i \in issued :
          /\ (last.op = "refresh" /\ last.cred = {i.token} /\ i.by = "create_access_token")
                => last.resp.status = 401
          /\ (last.op \in ProtectedOps /\ last.cred = {i.token}
                /\ i.by = "create_refresh_token")
                => last.resp.status = 401

\* an unexpired access token of an existing, active user was sent to
\* POST /auth/refresh and answered 401
C1_Witness ==
    /\ last.op = "refresh"
    /\ last.resp.status = 401
    /\ \E i \in issued :
          /\ last.cred = {i.token}
          /\ i.by = "create_access_token"
          /\ now <= i.iat
          /\ \E u \in users : str(u.id) = i.sub /\ u.is_active

TTL(by) == IF by = "create_access_token" THEN ACCESS_TTL ELSE REFRESH_TTL

TypeOf(by) == IF by = "create_access_token" THEN "access" ELSE "refresh"

\* C2: a token signed at time t0 for subject s verifies as its own type and
\* returns s at every time t0 <= t < t0 + TTL, is rejected at every time
\* t >= t0 + TTL, and once rejected is never accepted at a later time.
C2_ValidityWindow ==
    \A i \in issued :
        /\ now < i.iat + TTL(i.by) => verify_token(i.token, TypeOf(i.by), now) = {i.sub}
        /\ now >= i.iat + TTL(i.by) => verify_token(i.token, TypeOf(i.by), now) = None
        /\ \A t \in Times :
              (t >= now /\ verify_token(i.token, TypeOf(i.by), now) = None)
                 => verify_token(i.token, TypeOf(i.by), t) = None

\* C3: verify_token returns None for every input that is malformed, has a
\* bad signature, was signed with another secret, has exp <= now, has no
\* sub, or carries another type than the expected one; it returns a subject
\* only when all of these check, and then the token's sub.
C3_VerifyTotal ==
    last.op = "verify_token" =>
        LET tk == the(last.cred)
            ty == the(last.arg)
            r == last.resp.body
            malformed == "payload" \notin DOMAIN tk
            bad_signature == ~malformed /\ tk.sig # <<SECRET_KEY, tk.payload>>
            expired == ~malformed /\ "exp" \in DOMAIN tk.payload /\ tk.payload.exp <= now
            no_sub == ~malformed /\ "sub" \notin DOMAIN tk.payload
            wrong_type == ~malformed /\ payload_get(tk.payload, "type") # {ty}
            invalid == malformed \/ bad_signature \/ expired \/ no_sub \/ wrong_type
        IN  /\ invalid => r = None
            /\ r # None => (~invalid /\ r = {tk.payload.sub})

\* the login request names a registered email with a password that is not
\* the account's
WrongPassword(d, db) ==
    \E u \in db : u.email = d.email /\ ~verify_password(d.password, u.hashed_password)

\* the login request names a registered email with the account's password
RightPassword(d, db) ==
    \E u \in db : u.email = d.email /\ verify_password(d.password, u.hashed_password)

Unregistered(d, db) == \A u \in db : u.email # d.email

InvalidCredentials == HTTPException(401, "Incorrect email or password")

C5_LoginIssuesTokenPair ==
    last.op = "login" =>
        \A u \in users :
            (/\ u.email = the(last.arg).email
             /\ verify_password(the(last.arg).password, u.hashed_password)
             /\ u.is_active)
            => /\ last.resp.status = 200
               /\ last.resp.body # None
               /\ LET b == the(last.resp.body)
                  IN  /\ DOMAIN b.access_token # {}
                      /\ DOMAIN b.refresh_token # {}
                      /\ b.access_token # b.refresh_token
                      /\ verify_token(b.access_token, "access", now) = {str(u.id)}
                      /\ verify_token(b.refresh_token, "refresh", now) = {str(u.id)}

\* a login answered 200 while a second user exists
C5_Witness ==
    /\ last.op = "login"
    /\ last.resp.status = 200
    /\ Cardinality(users) = 2
    /\ \E u \in users : u.email = the(last.arg).email /\ u.id = 2

\* C6: a login with the right credentials of an inactive user is answered
\* 403 "inactive" and signs no token; with a wrong password the same account
\* gets the 401 of the credential check, which is made first.
C6_InactiveLoginRejected ==
    /\ \A d \in LoginRequest :
          (\E u \in users : u.email = d.email /\ ~u.is_active)
             => IF RightPassword(d, users)
                THEN login(d, users, now) =
                        [resp |-> HTTPException(403, "Inactive user account"), signed |-> {}]
                ELSE login(d, users, now).resp = InvalidCredentials
    /\ (/\ last.op = "login"
        /\ RightPassword(the(last.arg), users)
        /\ \E u \in users : u.email = the(last.arg).email /\ ~u.is_active)
          => last.resp = HTTPException(403, "Inactive user account")

\* a login with the right password of an inactive account was answered 403
C6_Witness ==
    /\ last.op = "login"
    /\ last.resp.status = 403
    /\ RightPassword(the(last.arg), users)
    /\ \E u \in users : u.email = the(last.arg).email /\ ~u.is_active

\* the outcome C7 gives the gate, in order: 403 without bearer credential, 401
\* when access verification fails, 404 when the subject has no record, 403
\* when the user is inactive, 0 when the user is passed on
GateStatus(credentials, db, t) ==
    IF credentials = None THEN 403
    ELSE IF verify_token(the(credentials), "access", t) = None THEN 401
    ELSE IF \A u \in db : {str(u.id)} # verify_token(the(credentials), "access", t) THEN 404
    ELSE IF \E u \in db : /\ {str(u.id)} = verify_token(the(credentials), "access", t)
                          /\ ~u.is_active
    THEN 403
    ELSE 0

\* the user a credential authenticates: the active user whose id the access
\* token carries
AuthenticatedUser(credentials, db, t) ==
    {u \in db : /\ credentials # None
                /\ verify_token(the(credentials), "access", t) = {str(u.id)}
                /\ u.is_active}

C8_MeActsOnSubject ==
    [][\A i \in issued :
          (/\ last'.op \in {"get_me", "put_me", "delete_me"}
           /\ last'.cred = {i.token}
           /\ i.by = "create_access_token")
          => /\ \A u \in users : str(u.id) # i.sub => u \in users'
             /\ \A u \in users' : str(u.id) # i.sub => u \in users
             /\ last'.resp.status = 200
                   => /\ the(last'.resp.body).id = int(i.sub)
                      /\ \E u \in users' : the(last'.resp.body) = UserSchema(u)
             /\ (last'.op = "get_me" /\ last'.resp.status = 200)
                   => \E u \in users : the(last'.resp.body) = UserSchema(u)
             /\ (last'.op = "delete_me" /\ last'.resp.status = 204)
                   => \A u \in users' : str(u.id) # i.sub]_vars

\* PUT /me was answered 200 for the second of two users
C8_Witness ==
    /\ last.op = "put_me"
    /\ last.resp.status = 200
    /\ Cardinality(users) = 2
    /\ the(last.resp.body).id = 2

\* C9: GET /users/ and DELETE /users/{id} succeed only for an authenticated
\* superuser; an authenticated active user who is not a superuser gets 403
\* and the store is unchanged; a superuser gets the list (200) or the
\* deletion (204, or 404 for an id that does not exist).
C9_AdminOnly ==
    [][last'.op \in {"list_users", "delete_user"} =>
          LET auth == AuthenticatedUser(last'.cred, users, now)
          IN  /\ last'.resp.status \in {200, 204} => \E u \in auth : u.is_superuser
              /\ \A u \in auth :
                    IF ~u.is_superuser
                    THEN /\ last'.resp.status = 403
                         /\ users' = users
                    ELSE IF last'.op = "list_users"
                    THEN /\ last'.resp = Response(200, [list |-> {UserSchema(v) : v \in users}])
                         /\ users' = users
                    ELSE IF \E v \in users : v.id = the(last'.arg)
                    THEN /\ last'.resp.status = 204
                         /\ users' = {v \in users : v.id # the(last'.arg)}
                    ELSE /\ last'.resp.status = 404
                         /\ users' = users]_vars

\* an active user who is not a superuser asked to delete an existing other
\* user and was answered 403
C9_Witness ==
    /\ last.op = "delete_user"
    /\ last.resp.status = 403
    /\ \E u \in AuthenticatedUser(last.cred, users, now) :
          /\ ~u.is_superuser
          /\ \E v \in users : v.id = the(last.arg) /\ v.id # u.id

\* C10: no sequence of public requests creates a user with is_superuser
\* true or sets a user's is_superuser to true, so starting from a store
\* without superuser nobody ever passes the admin gate.
C10_NoSuperuserEscalation ==
    /\ \A u \in users : ~u.is_superuser
    /\ last.op \in {"list_users", "delete_user"} => last.resp.status \notin {200, 204}

\* C11: POST /auth/refresh is answered, in this order: 401 when the token
\* fails "refresh" verification; 404 when the verified subject has no user
\* record; 403 when that user is inactive; otherwise 200 with an access token
\* and a refresh token signed by this call for the same subject, whose
\* expiries are the time of the call plus the lifetimes, whatever the expiry
\* of the submitted token.
C11_RefreshOutcomes ==
    last.op = "refresh" =>
        LET sub == verify_token(the(last.cred), "refresh", now)
            rows == {u \in users : {str(u.id)} = sub}
        IN  IF sub = None
            THEN last.resp = HTTPException(401, "Invalid or expired refresh token")
            ELSE IF rows = {}
            THEN last.resp = HTTPException(404, "User not found")
            ELSE IF \E u \in rows : ~u.is_active
            THEN last.resp = HTTPException(403, "Inactive user account")
            ELSE /\ last.resp.status = 200
                 /\ LET b == the(last.resp.body)
                    IN  /\ verify_token(b.access_token, "access", now) = sub
                        /\ verify_token(b.refresh_token, "refresh", now) = sub
                        /\ b.access_token.payload.exp = now + ACCESS_TTL
                        /\ b.refresh_token.payload.exp = now + REFRESH_TTL
                        /\ \E i \in issued : /\ i.token = b.access_token
                                              /\ i.by = "create_access_token"
                                              /\ i.iat = now
                        /\ \E i \in issued : /\ i.token = b.refresh_token
                                              /\ i.by = "create_refresh_token"
                                              /\ i.iat = now

\* a refresh made after the submitted token was signed was answered 200 with
\* a refresh token that expires later than the submitted one
C11_Witness ==
    /\ last.op = "refresh"
    /\ last.resp.status = 200
    /\ the(last.resp.body).refresh_token.payload.exp > the(last.cred).payload.exp

\* the hash Registrations gives every account at registration
RegisteredHash == get_password_hash("Password123!", "salt1")

\* C12: tokens are never revoked.  Whatever requests were served since it was
\* signed (newer tokens, password changes, anything else), every signed token
\* still verifies as its type with its subject while now < iat + lifetime;
\* and POST /auth/refresh with such a refresh token is answered 200 whenever
\* its user exists and is active, also after it was already used.
C12_NeverRevoked ==
    /\ \A i \in issued :
          now < i.iat + TTL(i.by) => verify_token(i.token, TypeOf(i.by), now) = {i.sub}
    /\ \A i \in issued :
          (/\ i.by = "create_refresh_token"
           /\ now < i.iat + REFRESH_TTL
           /\ \E u \in users : str(u.id) = i.sub /\ u.is_active)
          => /\ refresh_token(i.token, users, now).resp.status = 200
             /\ (last.op = "refresh" /\ last.cred = {i.token}) => last.resp.status = 200

\* a refresh token was answered 200 although a newer refresh token has been
\* signed for its user since and the user's password has been changed
C12_Witness ==
    /\ last.op = "refresh"
    /\ last.resp.status = 200
    /\ \E i, j \in issued :
          /\ last.cred = {i.token}
          /\ i.by = "create_refresh_token"
          /\ j.by = "create_refresh_token"
          /\ j.sub = i.sub
          /\ j.iat > i.iat
          /\ \E u \in users : str(u.id) = i.sub /\ u.hashed_password # RegisteredHash

\* C13: in every reachable state of the user table, whatever registrations,
\* PUT /me, PUT /users/{id} and deletions were served, no two users have the
\* same email and no two users have the same username.
C13_UniqueEmailUsername ==
    \A u, v \in users :
        u # v => (u.email # v.email /\ u.username # v.username)

\* an update asking for an email or username was refused with 400 while two
\* users exist
C13_Witness ==
    /\ last.op \in {"put_me", "update_user"}
    /\ last.resp.status = 400
    /\ Cardinality(users) = 2

\* the update asks for an email or a username that a user other than the
\* target holds
HeldByAnother(update_data, target, db) ==
    \E v \in db :
        /\ v.id # target
        /\ \/ "email" \in DOMAIN update_data /\ v.email = update_data.email
           \/ "username" \in DOMAIN update_data /\ v.username = update_data.username

\* C14: in every table state, a registration whose email or username a user
\* holds, and an update (PUT /users/{id}, PUT /me) whose email or username
\* another user holds, is answered 400 and leaves the table as it was,
\* whatever other fields the request carries; an update of an existing user
\* that asks for nothing another user holds (its own current email or
\* username included) is answered 200.
C14_DuplicateRejected ==
    /\ \A user_in \in UserCreate, salt \in SpecSalts :
          (\E u \in users : u.email = user_in.email \/ u.username = user_in.username)
          => LET r == create_user(user_in, users, salt, nextId)
             IN  r.resp.status = 400 /\ r.db = users
    /\ \A target \in users, user_in \in UserUpdate, salt \in SpecSalts :
          LET r == update_user(target.id, user_in, users, salt)
          IN  IF HeldByAnother(user_in, target.id, users)
              THEN r.resp.status = 400 /\ r.db = users
              ELSE r.resp.status = 200
    /\ \A c \in Credentials, user_update \in UserUpdate, salt \in SpecSalts :
          \A target \in AuthenticatedUser(c, users, now) :
              LET r == update_current_user(user_update, c, users, now, salt)
              IN  IF HeldByAnother(user_update, target.id, users)
                  THEN r.resp.status = 400 /\ r.db = users
                  ELSE r.resp.status = 200
    /\ (last.op \in {"create_user", "put_me", "update_user"} /\ last.resp.status = 400)
          => last.resp.detail \in {"Email already registered", "Username already taken"}

\* PUT /me asking for the other user's username was answered 400
C14_Witness ==
    /\ last.op = "put_me"
    /\ last.resp = HTTPException(400, "Username already taken")
    /\ \E u \in AuthenticatedUser(last.cred, users, now) :
          \E v \in users : v.id # u.id

\* ids handed out so far exceed the rows of the table: some user was deleted
SomeUserDeleted == nextId - 1 > Cardinality(users)

\* C15 as stated: once a user has been deleted, every later login with that
\* user's email and password is answered 401.  (Under SpecRelogin every
\* deleted user had "a@x.com" and "Password123!".)
C15_DeletedNeverLogsIn ==
    SomeUserDeleted =>
        /\ login([email |-> "a@x.com", password |-> "Password123!"], users, now).resp.status
              = 401
        /\ (last.op = "login" /\ the(last.arg).password = "Password123!")
              => last.resp.status = 401

\* the user a delete request is aimed at: the subject of the token for
\* DELETE /me, the path id for DELETE /users/{id}
DeleteTarget(req, db, t) ==
    IF req.op = "delete_me" THEN AuthenticatedUser(req.cred, db, t)
    ELSE {u \in db : req.arg = {u.id}}

\* C15 amended: a delete answered 204 leaves no user with the deleted
\* user's email, and while no user holds an email every login with it, with
\* any password, is answered 401 "Incorrect email or password".
C15_DeletedLoginRefusedWhileEmailFree ==
    [][/\ (last'.op \in {"delete_me", "delete_user"} /\ last'.resp.status = 204)
          => \A u \in DeleteTarget(last', users, now) :
                \A d \in LoginRequest :
                    d.email = u.email => login(d, users', now').resp = InvalidCredentials
       /\ \A d \in LoginRequest :
             Unregistered(d, users') => login(d, users', now').resp = InvalidCredentials
       /\ (last'.op = "login" /\ Unregistered(the(last'.arg), users'))
             => last'.resp = InvalidCredentials]_vars

\* after a deletion that left the table empty, a login with the deleted
\* user's email and password was answered 401
C15_Witness ==
    /\ SomeUserDeleted
    /\ users = {}
    /\ last.op = "login"
    /\ the(last.arg) = [email |-> "a@x.com", password |-> "Password123!"]
    /\ last.resp = InvalidCredentials

\* the signed tokens whose subject has no row: tokens of a deleted user
OrphanTokens(db) == {i \in issued : \A u \in db : str(u.id) # i.sub}

C17_DeleteRemovesExactlyTarget ==
    [][/\ (last'.op \in {"delete_me", "delete_user"} /\ last'.resp.status = 204)
          => \E u \in DeleteTarget(last', users, now) :
                /\ users' = users \ {u}
                /\ get_user(u.id, users').resp = HTTPException(404, "User not found")
       /\ last'.op = "delete_user"
          => \A su \in AuthenticatedUser(last'.cred, users, now) :
                su.is_superuser
                => IF \E u \in users : last'.arg = {u.id}
                   THEN last'.resp.status = 204
                   ELSE /\ last'.resp = HTTPException(404, "User not found")
                        /\ users' = users]_vars

\* a superuser's DELETE /users/{id} was answered 204, the id has no row any
\* more and the other user is still there
C17_Witness ==
    /\ last.op = "delete_user"
    /\ last.resp.status = 204
    /\ \A u \in users : last.arg # {u.id}
    /\ \E su \in AuthenticatedUser(last.cred, users, now) : su.is_superuser

\* the row `new` is the row `old` with exactly the fields of update_data set
OnlySentFieldsChanged(old, new, update_data) ==
    /\ new.id = old.id
    /\ \A f \in {"email", "username", "is_active", "is_superuser"} :
          new[f] = IF f \in DOMAIN update_data THEN update_data[f] ELSE old[f]
    /\ IF "password" \in DOMAIN update_data
       THEN verify_password(update_data.password, new.hashed_password)
       ELSE new.hashed_password = old.hashed_password

\* C18: in every table state, an update that is answered 200 (PUT
\* /users/{id}, PUT /me, any request body) sets the fields the request
\* carries and nothing else: every omitted field of the target keeps its
\* value, the target keeps its id, every other row is as it was, and the
\* response shows the updated row.  PUT /users/{id} for an id without a row
\* is answered 404 and changes nothing.
C18_UpdateChangesOnlySentFields ==
    /\ \A target \in users, user_in \in UserUpdate, salt \in SpecSalts :
          LET r == update_user(target.id, user_in, users, salt)
          IN  r.resp.status = 200
              => \E new \in r.db :
                    /\ OnlySentFieldsChanged(target, new, user_in)
                    /\ r.db = (users \ {target}) \cup {new}
                    /\ r.resp = Response(200, UserSchema(new))
    /\ \A c \in Credentials, user_update \in UserUpdate, salt \in SpecSalts :
          \A target \in AuthenticatedUser(c, users, now) :
              LET r == update_current_user(user_update, c, users, now, salt)
              IN  r.resp.status = 200
                  => \E new \in r.db :
                        /\ OnlySentFieldsChanged(target, new, user_update)
                        /\ r.db = (users \ {target}) \cup {new}
                        /\ r.resp = Response(200, UserSchema(new))
    /\ \A user_id \in UserIds, user_in \in UserUpdate, salt \in SpecSalts :
          (\A u \in users : u.id # user_id)
          => update_user(user_id, user_in, users, salt)
                = [resp |-> HTTPException(404, "User not found"), db |-> users]
    /\ (last.op \in {"put_me", "update_user"} /\ last.resp.status = 200)
          => \E u \in users : last.resp = Response(200, UserSchema(u))

\* PUT /users/1 was answered 200 and changed the first user's email or
\* username (it now holds the second identity's) while the second user exists
C18_Witness ==
    /\ last.op = "update_user"
    /\ last.resp.status = 200
    /\ last.arg = {1}
    /\ Cardinality(users) = 2
    /\ \E u \in users : u.id = 1 /\ u.username # UsernameOf(u.email)

\* C19: after an update answered 200 that carries a new password (PUT
\* /users/{id} or PUT /me), a login with the user's email and the new
\* password is answered 200, and a login with a password that was accepted
\* before and is not the new one is answered 401.
C19_PasswordChangeTakesEffect ==
    /\ \A target \in users, previous, new \in AllPasswords, salt \in HashSalts :
          LET r == update_user(target.id, [password |-> new], users, salt)
          IN  (/\ verify_password(previous, target.hashed_password)
               /\ previous # new
               /\ target.is_active
               /\ r.resp.status = 200)
              => /\ login([email |-> target.email, password |-> new], r.db, now).resp.status
                       = 200
                 /\ login([email |-> target.email, password |-> previous], r.db, now).resp
                       = InvalidCredentials
    /\ \A c \in Credentials, previous, new \in AllPasswords, salt \in HashSalts :
          \A target \in AuthenticatedUser(c, users, now) :
              LET r == update_current_user([password |-> new], c, users, now, salt)
              IN  (/\ verify_password(previous, target.hashed_password)
                   /\ previous # new
                   /\ r.resp.status = 200)
                  => /\ login([email |-> target.email, password |-> new], r.db,
                              now).resp.status = 200
                     /\ login([email |-> target.email, password |-> previous], r.db,
                              now).resp = InvalidCredentials

ReadOps == {"get_user", "list_users", "get_me", "login", "refresh"}

\* the request was turned away by the gate: no credential, failed
\* verification, no record, inactive, or not a superuser on an admin route
RejectedByGate(req, db, t) ==
    /\ req.op \in ProtectedOps
    /\ \/ GateStatus(req.cred, db, t) # 0
       \/ /\ req.op \in {"list_users", "delete_user"}
          /\ \A u \in AuthenticatedUser(req.cred, db, t) : ~u.is_superuser

\* C20: GET /users/{id}, GET /users/, GET /me, login, refresh and every
\* request the gate rejects leave the user table as it was, so GET
\* /users/{id} gives the same answer for every id before and after them.
C20_ReadsLeaveStoreUnchanged ==
    [][(last'.op \in ReadOps \/ RejectedByGate(last', users, now))
          => /\ users' = users
             /\ \A user_id \in UserIds :
                   get_user(user_id, users').resp = get_user(user_id, users).resp
             /\ RejectedByGate(last', users, now) => last'.resp.status \in {401, 403, 404}
             /\ last'.op = "get_user"
                   => last'.resp = get_user(the(last'.arg), users).resp]_vars

\* DELETE /users/{id} without a valid token was answered 401 and the row of
\* that id is still in the table
C20_Witness ==
    /\ last.op = "delete_user"
    /\ last.resp.status = 401
    /\ \E u \in users : last.arg = {u.id}

(***************************************************************************)
(* C21.  Response shape.                                                   *)
(***************************************************************************)
UserOps == {"create_user", "get_me", "put_me", "get_user", "update_user"}

\* the user objects carried by the body of the last response
BodyUsers ==
    IF last.resp.body = None THEN {}
    ELSE CASE last.op = "login" -> {the(last.resp.body).user}
           [] last.op = "list_users" -> the(last.resp.body).list
           [] last.op \in UserOps -> {the(last.resp.body)}
           [] OTHER -> {}

SecretFields == {"password", "hashed_password"}

\* C21: no response of registration, login, GET/PUT /me, GET/PUT
\* /users/{id} or GET /users/ carries a password or hashed_password field:
\* every user object of a body is the projection of a record without the
\* digest, and the bodies of login and refresh carry tokens only.
C21_NoResponseCarriesPassword ==
    /\ \A o \in BodyUsers :
          /\ DOMAIN o \cap SecretFields = {}
          /\ \A u \in users : u.id = o.id => o = UserSchema(u)
    /\ last.op \in {"login", "refresh"} /\ last.resp.body # None
          => DOMAIN the(last.resp.body) \cap SecretFields = {}

C21_Witness ==
    /\ last.op = "login"
    /\ last.resp.status = 200
    /\ \E u \in users : /\ the(last.resp.body).user = UserSchema(u)
                        /\ u.hashed_password = get_password_hash("Password123!", "salt1")

(***************************************************************************)
(* C22.  Listing and pagination.                                           *)
(***************************************************************************)
Min(a, b) == IF a < b THEN a ELSE b

Max(a, b) == IF a > b THEN a ELSE b

\* the last request was GET /users/ and passed the superuser gate
ListedBySuperuser ==
    /\ last.op = "list_users"
    /\ get_current_active_superuser(last.cred, users, now).ok

\* C22: GET /users/ with a superuser token answers 200; with skip s and
\* limit l the list is the users at positions s .. s+l-1 of an order of the
\* table's rows, min(l, max(0, N - s)) of the N users, and with the defaults
\* (skip 0, limit 100) it is all the users.
C22_ListPagination ==
    ListedBySuperuser =>
        LET s == the(last.arg).skip
            l == the(last.arg).limit
            N == Cardinality(users)
            list == the(last.resp.body).list
        IN  /\ last.resp.status = 200
            /\ \E rows \in query_all(users) :
                  list = {UserSchema(rows[i]) : i \in (s + 1..s + l) \cap (1..N)}
            /\ Cardinality(list) = Min(l, Max(0, N - s))
            /\ s = 0 /\ l = DefaultLimit => list = {UserSchema(u) : u \in users}

C22_Witness ==
    /\ ListedBySuperuser
    /\ Cardinality(users) = 2
    /\ the(last.arg).skip = 1
    /\ the(last.arg).limit = 2
    /\ Cardinality(the(last.resp.body).list) = 1

(***************************************************************************)
(* C23, C24.  The hasher.                                                  *)
(***************************************************************************)
\* C23: a digest the hasher produced for p verifies p, whatever salt it
\* drew, and verifies no other password q.
C23_HashRoundTrip ==
    last.op = "verify_password" =>
        LET q == the(last.arg).plain_password
            h == the(last.arg).hashed_password
        IN  \A p \in AllPasswords, salt \in HashSalts :
                h = get_password_hash(p, salt) => last.resp.body = {q = p}

\* the login request names an account whose stored digest is no digest
MalformedStored(d, db) ==
    \E u \in db : u.email = d.email /\ u.hashed_password \in MalformedDigests

\* C24: verify_password returns false, and does not raise, for every
\* password and every string that is no digest of the hasher; a login
\* against a record holding such a string is answered 401.
C24_MalformedDigestIsNonMatch ==
    /\ (last.op = "verify_password"
           /\ the(last.arg).hashed_password \in MalformedDigests)
          => last.resp.body = {FALSE}
    /\ (last.op = "login" /\ MalformedStored(the(last.arg), users))
          => last.resp = InvalidCredentials

(***************************************************************************)
(* C25, C26.  Interleaved requests.                                        *)
(***************************************************************************)
\* C25: of requests that claim the same email or username and interleave
\* their lookups and writes, the ones that do not succeed are answered 400
\* (or 404 for an update of a missing user), and no two users of the table
\* ever share an email or a username.
C25_RaceKeepsUniqueness ==
    /\ last.op \in {"create_user", "update_user"}
          => last.resp.status \in {200, 201, 400, 404}
    /\ \A u, v \in users :
          u # v => u.email # v.email /\ u.username # v.username

\* C26: a /me request that passed the gate ends with a documented outcome:
\* PUT /me with 200 and the updated record of the authenticated user, or 400;
\* DELETE /me with 204.
C26_MeOutcomesAfterGate ==
    /\ (last.op = "put_me" /\ last.arg # None)
          => \/ last.resp.status = 400
             \/ /\ last.resp.status = 200
                /\ \E u \in users : /\ u.id = the(last.arg)
                                    /\ last.resp = Response(200, UserSchema(u))
    /\ (last.op = "delete_me" /\ last.arg # None) => last.resp.status = 204

(***************************************************************************)
(* C27.  Inactive users.                                                   *)
(***************************************************************************)
\* the signed tokens whose subject's row has is_active false
InactiveTokens(db) ==
    {i \in issued : \E u \in db : str(u.id) = i.sub /\ ~u.is_active}

\* C27: login and refresh sign no token for a user whose is_active is false;
\* the tokens signed for a user before the deactivation still verify until
\* they expire, but for as long as is_active is false every protected
\* request made with them is answered 403 and changes nothing, and every
\* refresh made with them is answered 403 and signs nothing.
C27_InactiveGetsNothing ==
    [][/\ \A i \in InactiveTokens(users) :
             /\ (/\ verify_token(i.token, "access", now) # None
                 /\ last'.op \in ProtectedOps
                 /\ last'.cred = {i.token})
                   => /\ last'.resp = HTTPException(403, "Inactive user")
                      /\ users' = users
             /\ (/\ verify_token(i.token, "refresh", now) # None
                 /\ last'.op = "refresh"
                 /\ last'.cred = {i.token})
                   => /\ last'.resp = HTTPException(403, "Inactive user account")
                      /\ issued' = issued
       /\ (/\ last'.op = "login"
           /\ \E u \in users : u.email = the(last'.arg).email /\ ~u.is_active)
             => /\ last'.resp.status \in {401, 403}
                /\ issued' = issued
       /\ \A i \in InactiveTokens(users') :
             /\ now' < i.iat + TTL(i.by)
                   => verify_token(i.token, TypeOf(i.by), now') = {i.sub}
             /\ AuthenticatedUser({i.token}, users', now') = {}
             /\ refresh_token(i.token, users', now').signed = {}]_vars

\* a refresh with the unexpired refresh token of a user deactivated after the
\* token was signed was answered 403
C27_Witness ==
    /\ last.op = "refresh"
    /\ last.resp = HTTPException(403, "Inactive user account")
    /\ \E i \in InactiveTokens(users) :
          /\ last.cred = {i.token}
          /\ i.by = "create_refresh_token"
          /\ verify_token(i.token, "refresh", now) = {i.sub}

====
